---------------------------- MODULE Spec2Model ----------------------------
(***************************************************************************)
(* Model of .github/workflows/get_aws_access.py: the AWS Academy           *)
(* credential extractor.  The script logs in through a browser, brings the *)
(* lab to its active state, scrapes the credential text, parses it with    *)
(* AWS.get_secrets and appends three lines to creds.txt.                   *)
(*                                                                         *)
(* A Python str is modelled as a sequence of characters.  A character is   *)
(* written as a TLA+ string; besides the whitespace characters and "="     *)
(* the model uses opaque characters ("a", or a run of non-delimiter        *)
(* characters such as "AKIA123" written as one element), which str.split   *)
(* never cuts.                                                             *)
(***************************************************************************)
EXTENDS Naturals, Integers, Sequences, FiniteSets, TLC

(***************************************************************************)
(* Bounds of the model.                                                    *)
(***************************************************************************)
\* longest whitespace-free token of a generated raw credential text
MaxWordLen == 3
\* largest number of tokens of a generated raw credential text
MaxTokens == 5
\* longest sequence of set_github_env calls of PersistSpec
MaxCalls == 2

(***************************************************************************)
(* Python values.                                                          *)
(***************************************************************************)
\* Python's None: a value that is no str of the model (its one element is no
\* character of any text)
None == <<"<None>">>

\* the characters str.split() treats as whitespace
Whitespace == {" ", "\n", "\t"}

\* (log messages are written without their accents)
\* exceptions: the type, the message, and the type of the exception that
\* Exception(error) was built from ("-" when built from a message)
Exc(type, msg, wraps) == [type |-> type, msg |-> msg, wraps |-> wraps]
NoError == Exc("-", "-", "-")

\* list[i] with Python's 0-based index
Item(list, i) == list[i + 1]
\* whether list[i] raises IndexError
OutOfRange(list, i) == i >= Len(list)

\* the k-th smallest element of a set of numbers
Nth(S, k) == CHOOSE x \in S : Cardinality({y \in S : y < x}) = k - 1

\* str.split(): the maximal runs of non-whitespace characters, in order (split
\* on runs of whitespace, no empty strings in the result)
str_split(s) ==
    LET starts == {i \in 1..Len(s) : s[i] \notin Whitespace
                                      /\ (i = 1 \/ s[i - 1] \in Whitespace)}
        ends == {i \in 1..Len(s) : s[i] \notin Whitespace
                                    /\ (i = Len(s) \/ s[i + 1] \in Whitespace)}
    IN  [k \in 1..Cardinality(starts) |-> SubSeq(s, Nth(starts, k), Nth(ends, k))]

\* str.split(sep, maxsplit): the pieces between the occurrences of sep (the first
\* maxsplit ones when maxsplit >= 0; all of them when it is -1), empty pieces kept
str_split_sep(s, sep, maxsplit) ==
    LET at == {i \in 1..Len(s) : s[i] = sep}
        cuts == IF maxsplit < 0 THEN at
                ELSE {i \in at : Cardinality({j \in at : j < i}) < maxsplit}
        n == Cardinality(cuts) + 1
    IN  [k \in 1..n |->
            SubSeq(s, IF k = 1 THEN 1 ELSE Nth(cuts, k - 1) + 1,
                      IF k = n THEN Len(s) ELSE Nth(cuts, k) - 1)]

\* 'sub' in s, for strs
str_contains(s, sub) ==
    \E i \in 1..(Len(s) - Len(sub) + 1) : SubSeq(s, i, i + Len(sub) - 1) = sub

(***************************************************************************)
(* AWS.get_secrets (lines 154-178).  The result is the returned triple or  *)
(* the exception the first failing line raises.                            *)
(***************************************************************************)
Returned(v) == [ok |-> TRUE, value |-> v, error |-> NoError]
Raised(e) == [ok |-> FALSE, value |-> <<>>, error |-> e]
IndexError == Exc("IndexError", "list index out of range", "-")

\* the second element of token[i] split on every "=" (lines 174 and 175)
SecondOfSplit_first_only(info, i) == Item(str_split_sep(Item(info, i), "=", 1), 1)
SecondOfSplit(info, i) == Item(str_split_sep(Item(info, i), "=", -1), 1)

\* the rest of token[i] after its first "=": split('=', 1)[1] (line 176)
RestAfterFirst_every(info, i) == Item(str_split_sep(Item(info, i), "=", -1), 1)
RestAfterFirst(info, i) == Item(str_split_sep(Item(info, i), "=", 1), 1)

\* whether info[i].split('=')[1] raises IndexError: info has no item i, or the
\* item has no "="
NoValue(info, i) ==
    \/ OutOfRange(info, i)
    \/ OutOfRange(str_split_sep(Item(info, i), "=", -1), 1)

\* a get_secrets that takes a token without "=" to have an empty value
get_secrets_lenient(raw) ==
    LET info == str_split(raw)
        value(i, maxsplit) ==
            LET parts == str_split_sep(Item(info, i), "=", maxsplit)
            IN  IF OutOfRange(parts, 1) THEN <<>> ELSE Item(parts, 1)
    IN  IF OutOfRange(info, 3)
        THEN Raised(IndexError)
        ELSE Returned(<<value(1, -1), value(2, -1), value(3, 1)>>)
\* a get_secrets that refuses an empty value
get_secrets_strict(raw) ==
    LET info == str_split(raw)
    IN  IF NoValue(info, 1) \/ NoValue(info, 2) \/ NoValue(info, 3)
        THEN Raised(IndexError)
        ELSE IF <<>> \in {SecondOfSplit(info, 1), SecondOfSplit(info, 2),
                          RestAfterFirst(info, 3)}
        THEN Raised(Exc("ValueError", "empty credential", "-"))
        ELSE Returned(<<SecondOfSplit(info, 1),
                        SecondOfSplit(info, 2),
                        RestAfterFirst(info, 3)>>)
get_secrets(raw) ==
    LET info == str_split(raw)
    IN  IF NoValue(info, 1) \/ NoValue(info, 2) \/ NoValue(info, 3)
        THEN Raised(IndexError)
        ELSE Returned(<<SecondOfSplit(info, 1),
                        SecondOfSplit(info, 2),
                        RestAfterFirst(info, 3)>>)

(***************************************************************************)
(* set_github_env (lines 181-204): the content of creds.txt after the      *)
(* call, the file being opened in append mode.                             *)
(***************************************************************************)
Line(key, value) == <<key, "=">> \o value \o <<"\n">>

\* a set_github_env that opens the file in write mode
set_github_env_truncating(file, k, s, t) ==
    Line("AWS_ACCESS_KEY_ID", k) \o Line("AWS_SECRET_ACCESS_KEY", s)
      \o Line("AWS_SESSION_TOKEN", t)
\* a set_github_env that leaves the session token out
set_github_env_two_lines(file, k, s, t) ==
    file \o Line("AWS_ACCESS_KEY_ID", k) \o Line("AWS_SECRET_ACCESS_KEY", s)
set_github_env(file, k, s, t) ==
    file \o Line("AWS_ACCESS_KEY_ID", k) \o Line("AWS_SECRET_ACCESS_KEY", s)
         \o Line("AWS_SESSION_TOKEN", t)

(***************************************************************************)
(* The inputs of the model.                                                *)
(***************************************************************************)
\* the tokens of a text in the documented format (lines 161-162):
\* "info aws_access_key_id=AKIA123 aws_secret_access_key=SECRET456
\* aws_session_token=TOK=EN=789"
ExampleTokens ==
    << <<"info">>,
       <<"aws_access_key_id", "=", "AKIA123">>,
       <<"aws_secret_access_key", "=", "SECRET456">>,
       <<"aws_session_token", "=", "TOK", "=", "EN", "=", "789">> >>

\* every whitespace-free token of 1..n characters over {"a", "="}
WordsUpTo(n) == UNION {[1..m -> {"a", "="}] : m \in 1..n}
\* the tokens tried at positions 1, 2 and 3 of a text of n tokens: every word of
\* up to MaxWordLen characters for the texts of up to four tokens, every word of
\* up to two characters for the longer ones
Words(n) == WordsUpTo(IF n <= 4 THEN MaxWordLen ELSE 2)
\* the tokens tried at position 0 and after position 3, which the code ignores
HeadWords == {<<"a">>, <<"=">>}
TailWords == {<<"a", "=", "a">>}

\* the token lists of n generated tokens
TokenSeqs(n) ==
    {[i \in 1..n |-> IF i = 1 THEN h ELSE IF i <= 4 THEN w[i] ELSE t] :
        h \in HeadWords, w \in [2..(IF n < 4 THEN n ELSE 4) -> Words(n)], t \in TailWords}

\* how a raw text separates and pads its tokens
Styles == {[sep |-> <<" ">>, pad |-> <<>>], [sep |-> <<"\n", " ">>, pad |-> <<"\t">>]}

RECURSIVE JoinFrom(_, _, _)
JoinFrom(toks, i, sep) ==
    IF i > Len(toks) THEN <<>>
    ELSE (IF i = 1 THEN <<>> ELSE sep) \o toks[i] \o JoinFrom(toks, i + 1, sep)

\* the raw text of a token list in a style
RawText(toks, st) == st.pad \o JoinFrom(toks, 1, st.sep) \o st.pad

\* the texts the credential box of the page may show
PageTokens ==
    { ExampleTokens,
      << <<"[default]">>, <<"aws_access_key_id", "=", "ASIA1">>,
         <<"aws_secret_access_key", "=", "s3cr3t">>,
         <<"aws_session_token", "=", "IQoJ", "=", "=">> >>,
      << <<"[default]">>, <<"aws_access_key_id", "=">>,
         <<"aws_secret_access_key", "=", "s3cr3t">>,
         <<"aws_session_token", "=", "IQoJ">> >>,
      << <<"No">>, <<"credentials">>, <<"available">>, <<"yet">> >>,
      << <<"[default]">> >>,
      << >> }
\* the page shows one token per line
PageStyle == [sep |-> <<"\n">>, pad |-> <<>>]

\* what creds.txt may hold before the run
Priors == {<<>>, <<"OLD", "=", "v", "\n">>, <<"unterminated">>}

\* the credential values set_github_env is called with in PersistSpec
Values == {<<>>, <<"a">>, <<"b", "=", "c">>}

\* int(time.time()) at the time of an error
Timestamps == {1700000000, 1700000001}

\* the class attribute of #vmstatus: None when the element has no class
LedGreen == <<"led-green">>
StatusClasses == {<<"led-green">>, <<"led-red">>, <<"fas", " ", "led-green">>}

(***************************************************************************)
(* The state.                                                              *)
(***************************************************************************)
VARIABLES
    pc,           \* the position of the script
    calls,        \* the browser calls made so far, in order
    log,          \* the messages logged so far, in order
    files,        \* the screenshot files written
    dirs,         \* the directories that exist
    page_url,     \* the URL of the page
    dom_loaded,   \* whether the course page reached domcontentloaded
    vmstatus,     \* the class attribute of #vmstatus in the tool frame
    clikeybox,    \* the text of #clikeybox > pre > span, None while not attached
    classe,       \* configure_aws's local classe
    info_raw,     \* the scraped text (configure_aws's result)
    secrets,      \* the triple get_secrets returned
    creds,        \* the content of creds.txt
    error,        \* the exception caught by the entry point's except clause
    raised,       \* the exception that leaves the process
    exit_status,  \* "running", "0" or "nonzero"
    tokens,       \* history: the token list the raw text was built from
    prior,        \* history: the content of creds.txt before the first call
    persisted,    \* history: the triples set_github_env was called with
    was_active    \* history: whether #vmstatus has shown led-green

vars == <<pc, calls, log, files, dirs, page_url, dom_loaded, vmstatus, clikeybox,
          classe, info_raw, secrets, creds, error, raised, exit_status, tokens,
          prior, persisted, was_active>>

browser == <<page_url, dom_loaded, vmstatus, clikeybox, was_active>>
locals == <<classe, info_raw, secrets>>
history == <<tokens, prior, persisted>>

LoginUrl == "https://www.awsacademy.com/vforcesite/LMS_Login"
SuccessUrl == "https://awsacademy.instructure.com/?login_success=1"
CourseUrl == "https://awsacademy.instructure.com/courses/130670/modules/items/12498015"
ScreenshotDir == "screenshots"

IsActive(class) == class # None /\ str_contains(class, LedGreen)

\* the state before the script runs, with creds.txt holding `before`
Idle(before) ==
    /\ calls = <<>> /\ log = <<>> /\ files = {}
    /\ page_url = "about:blank" /\ dom_loaded = FALSE
    /\ clikeybox = None /\ classe = None /\ secrets = <<>>
    /\ creds = before /\ prior = before /\ persisted = <<>>
    /\ error = NoError /\ raised = NoError /\ exit_status = "running"

Init ==
    /\ pc = "main"
    /\ tokens = <<>>
    /\ info_raw = None
    /\ dirs \in {{}, {ScreenshotDir}}
    /\ vmstatus \in StatusClasses \cup {None}
    /\ was_active = IsActive(vmstatus)
    /\ \E before \in Priors : Idle(before)

(***************************************************************************)
(* Building blocks of the steps.                                           *)
(***************************************************************************)
Shot(name) == "screenshot:" \o ScreenshotDir \o "/" \o name

\* page.screenshot(path=...): the file is written, its directory made if needed
ScreenshotFiles(fs, name) == fs \cup {name}

\* a Playwright call that gives up after its timeout
TimeoutError(call) == Exc("TimeoutError", call, "-")

\* an exception that nothing catches ends the process (non-zero status)
Uncaught(e) ==
    /\ pc' = "exit"
    /\ raised' = e
    /\ exit_status' = "nonzero"

\* an exception raised inside the try block of the entry point (lines 216-222)
Caught(e) ==
    /\ pc' = "except"
    /\ error' = e

(***************************************************************************)
(* The entry point up to the AWS object (lines 207-214) and AWS.__init__   *)
(* (lines 44-52).                                                          *)
(***************************************************************************)
Main_Start ==
    /\ pc = "main"
    /\ pc' = "login_goto"
    /\ calls' = calls \o <<"launch", "new_context", "new_page">>
    /\ log' = Append(log, "[+] Navegador iniciado")
    /\ UNCHANGED <<files, dirs, browser, locals, creds, error, raised, exit_status, history>>

(***************************************************************************)
(* AWS._login (lines 54-102).  It runs outside the try block of the entry  *)
(* point: what it raises leaves the process.                               *)
(***************************************************************************)
Login_Goto ==
    /\ pc = "login_goto"
    /\ log' = Append(log, "[*] Fazendo login...")
    /\ calls' = Append(calls, "goto:login")
    /\ \/ /\ pc' = "login_click_start"
          /\ page_url' = LoginUrl
          /\ UNCHANGED <<raised, exit_status>>
       \/ /\ Uncaught(TimeoutError("goto:login"))
          /\ UNCHANGED page_url
    /\ UNCHANGED <<files, dirs, dom_loaded, vmstatus, clikeybox, was_active, locals,
                   creds, error, history>>

Login_ClickStart ==
    /\ pc = "login_click_start"
    /\ \/ /\ pc' = "login_fill"
          /\ calls' = calls \o <<"click:start", Shot("1-click_start.png")>>
          /\ files' = ScreenshotFiles(files, "1-click_start.png")
          /\ dirs' = dirs \cup {ScreenshotDir}
          /\ UNCHANGED <<raised, exit_status>>
       \/ /\ Uncaught(TimeoutError("click:start"))
          /\ calls' = Append(calls, "click:start")
          /\ UNCHANGED <<files, dirs>>
    /\ UNCHANGED <<log, browser, locals, creds, error, history>>

Login_Fill ==
    /\ pc = "login_fill"
    /\ \/ /\ pc' = "login_submit"
          /\ calls' = calls \o <<"fill:email", "fill:password", Shot("2-send_data.png")>>
          /\ files' = ScreenshotFiles(files, "2-send_data.png")
          /\ UNCHANGED <<raised, exit_status>>
       \/ /\ \E done \in {<<"fill:email">>, <<"fill:email", "fill:password">>} :
                /\ calls' = calls \o done
                /\ Uncaught(TimeoutError(done[Len(done)]))
          /\ UNCHANGED files
    /\ UNCHANGED <<log, dirs, browser, locals, creds, error, history>>

\* the click on the submit button; the site answers with the success URL or not
Login_Submit ==
    /\ pc = "login_submit"
    /\ calls' = Append(calls, "click:submit")
    /\ \/ /\ pc' = "login_wait_for_url"
          /\ page_url' \in {SuccessUrl, "https://awsacademy.instructure.com/login/canvas"}
          /\ UNCHANGED <<raised, exit_status>>
       \/ /\ Uncaught(TimeoutError("click:submit"))
          /\ UNCHANGED page_url
    /\ UNCHANGED <<log, files, dirs, dom_loaded, vmstatus, clikeybox, was_active,
                   locals, creds, error, history>>

LoginFailed ==
    Exc("Exception",
        "Login falhou! Verifique suas credenciais ou se o site mudou o layout.", "-")

\* a _login whose except clause does not raise
Login_WaitForUrl_swallowing ==
    /\ pc = "login_wait_for_url"
    /\ pc' = "configure_goto"
    /\ IF page_url = SuccessUrl
       THEN /\ calls' = calls \o <<"wait_for_url", Shot("3-conclude_login.png")>>
            /\ log' = Append(log, "[+] Login concluido com sucesso")
            /\ files' = ScreenshotFiles(files, "3-conclude_login.png")
       ELSE /\ calls' = calls \o <<"wait_for_url", Shot("3-login_error.png")>>
            /\ log' = Append(log, "[!] Falha no login: credenciais invalidas ou pagina nao carregou corretamente")
            /\ files' = ScreenshotFiles(files, "3-login_error.png")
    /\ UNCHANGED <<dirs, browser, locals, creds, error, raised, exit_status, history>>

\* lines 90-102: wait_for_url with its 15 s timeout, and the except clause
Login_WaitForUrl ==
    /\ pc = "login_wait_for_url"
    /\ IF page_url = SuccessUrl
       THEN /\ pc' = "configure_goto"
            /\ calls' = calls \o <<"wait_for_url", Shot("3-conclude_login.png")>>
            /\ log' = Append(log, "[+] Login concluido com sucesso")
            /\ files' = ScreenshotFiles(files, "3-conclude_login.png")
            /\ UNCHANGED <<raised, exit_status>>
       ELSE /\ calls' = calls \o <<"wait_for_url", Shot("3-login_error.png")>>
            /\ log' = Append(log, "[!] Falha no login: credenciais invalidas ou pagina nao carregou corretamente")
            /\ files' = ScreenshotFiles(files, "3-login_error.png")
            /\ Uncaught(LoginFailed)
    /\ UNCHANGED <<dirs, browser, locals, creds, error, history>>

(***************************************************************************)
(* AWS.configure_aws (lines 104-152), called inside the try block.         *)
(***************************************************************************)
Configure_Goto ==
    /\ pc = "configure_goto"
    /\ log' = Append(log, "[+] Entrando na AWS")
    /\ calls' = Append(calls, "goto:course")
    /\ \/ /\ pc' = "configure_wait_load"
          /\ page_url' = CourseUrl
          /\ UNCHANGED error
       \/ /\ Caught(TimeoutError("goto:course"))
          /\ UNCHANGED page_url
    /\ UNCHANGED <<files, dirs, dom_loaded, vmstatus, clikeybox, was_active, locals,
                   creds, raised, exit_status, history>>

\* line 126: wait_for_load_state("domcontentloaded", timeout=0) returns when the
\* page is loaded and never gives up; then the screenshot of line 127
Configure_WaitLoad ==
    /\ pc = "configure_wait_load"
    /\ dom_loaded
    /\ pc' = "configure_wait_status"
    /\ calls' = calls \o <<"wait_for_load_state", Shot("4-configure_aws.png")>>
    /\ files' = ScreenshotFiles(files, "4-configure_aws.png")
    /\ UNCHANGED <<log, dirs, browser, locals, creds, error, raised, exit_status, history>>

\* lines 129-132: #vmstatus must attach within 30 s
Configure_WaitStatus ==
    /\ pc = "configure_wait_status"
    /\ log' = Append(log, "[*] Verificando status da conta")
    /\ calls' = Append(calls, "wait_for:#vmstatus")
    /\ \/ pc' = "configure_read_status" /\ UNCHANGED error
       \/ Caught(TimeoutError("wait_for:#vmstatus"))
    /\ UNCHANGED <<files, dirs, browser, locals, creds, raised, exit_status, history>>

\* lines 133-135: classe = locator.get_attribute('class')
Configure_ReadStatus ==
    /\ pc = "configure_read_status"
    /\ pc' = "configure_check_status"
    /\ classe' = vmstatus
    /\ calls' = calls \o <<"get_attribute:#vmstatus", Shot("5-configure_aws_status.png")>>
    /\ files' = ScreenshotFiles(files, "5-configure_aws_status.png")
    /\ UNCHANGED <<log, dirs, browser, info_raw, secrets, creds, error, raised,
                   exit_status, history>>

\* line 137: 'led-green' not in classe
NeedsLaunch_always(class) == TRUE
NeedsLaunch(class) == ~str_contains(class, LedGreen)

\* lines 137-139: the lab is started when the class read does not hold led-green;
\* `in` applied to None raises TypeError
Configure_CheckStatus ==
    /\ pc = "configure_check_status"
    /\ IF classe = None
       THEN /\ Caught(Exc("TypeError", "argument of type 'NoneType' is not iterable", "-"))
            /\ UNCHANGED <<log, calls>>
       ELSE IF NeedsLaunch(classe)
       THEN /\ log' = Append(log, "[*] Inicia a conta da AWS")
            /\ calls' = Append(calls, "click:#launchclabsbtn")
            /\ \/ pc' = "configure_wait_active" /\ UNCHANGED error
               \/ Caught(TimeoutError("click:#launchclabsbtn"))
       ELSE /\ pc' = "configure_show"
            /\ UNCHANGED <<log, calls, error>>
    /\ UNCHANGED <<files, dirs, browser, locals, creds, raised, exit_status, history>>

\* line 140: locator('#vmstatus.led-green').wait_for(timeout=0) returns when the
\* indicator has the class led-green and never gives up
ActiveWaitOver_at_once(class) == TRUE
ActiveWaitOver(class) == IsActive(class)

Configure_WaitActive ==
    /\ pc = "configure_wait_active"
    /\ ActiveWaitOver(vmstatus)
    /\ pc' = "configure_show"
    /\ calls' = Append(calls, "wait_for:#vmstatus.led-green")
    /\ UNCHANGED <<log, files, dirs, browser, locals, creds, error, raised,
                   exit_status, history>>

\* lines 142-147: the two reveal controls, then the screenshot
Configure_Show ==
    /\ pc = "configure_show"
    /\ log' = Append(log, "[*] Coletando informacoes da AWS")
    /\ \/ /\ pc' = "configure_wait_text"
          /\ calls' = calls \o <<"click:#detailbtn2", "click:#clikeyboxbtn",
                                 Shot("6-show_aws_credentials.png")>>
          /\ files' = ScreenshotFiles(files, "6-show_aws_credentials.png")
          /\ UNCHANGED error
       \/ /\ \E done \in {<<"click:#detailbtn2">>, <<"click:#detailbtn2", "click:#clikeyboxbtn">>} :
                /\ calls' = calls \o done
                /\ Caught(TimeoutError(done[Len(done)]))
          /\ UNCHANGED files
    /\ UNCHANGED <<dirs, browser, locals, creds, raised, exit_status, history>>

\* lines 150-152: wait_for(state='attached', timeout=0) returns when the text
\* element is attached and never gives up; its text is configure_aws's result
TextWaitOver(text) == text # None

Configure_WaitText ==
    /\ pc = "configure_wait_text"
    /\ TextWaitOver(clikeybox)
    /\ pc' = "get_secrets"
    /\ calls' = calls \o <<"wait_for:#clikeybox", "text_content:#clikeybox">>
    /\ info_raw' = clikeybox
    /\ UNCHANGED <<log, files, dirs, browser, classe, secrets, creds, error, raised,
                   exit_status, history>>

(***************************************************************************)
(* The rest of the entry point (lines 217-231).                            *)
(***************************************************************************)
\* lines 218-219
Main_GetSecrets ==
    /\ pc = "get_secrets"
    /\ LET r == get_secrets(info_raw)
       IN  IF r.ok
           THEN /\ pc' = "set_github_env"
                /\ secrets' = r.value
                /\ log' = Append(log, "[+] Dados coletados")
                /\ UNCHANGED error
           ELSE /\ Caught(r.error)
                /\ UNCHANGED <<log, secrets>>
    /\ UNCHANGED <<calls, files, dirs, browser, classe, info_raw, creds, raised,
                   exit_status, history>>

\* lines 220-221, and the end of the script: exit status 0
Main_SetGithubEnv ==
    /\ pc = "set_github_env"
    /\ creds' = set_github_env(creds, secrets[1], secrets[2], secrets[3])
    /\ persisted' = Append(persisted, secrets)
    /\ pc' = "exit"
    /\ exit_status' = "0"
    /\ UNCHANGED <<calls, log, files, dirs, browser, locals, error, raised, tokens, prior>>

\* the path of the error screenshot (lines 223-228)
ErrorShot(timestamp) == <<"screenshot_error_", timestamp, ".png">>

\* what line 231 raises: a new Exception built from the caught one
Reraise_same(e) == e
Reraise(e) == Exc("Exception", e.msg, e.type)

\* lines 222-231: the except clause
Main_Except ==
    /\ pc = "except"
    /\ \E timestamp \in Timestamps :
          /\ dirs' = dirs \cup {ScreenshotDir}
          /\ files' = ScreenshotFiles(files, ErrorShot(timestamp))
          /\ calls' = calls \o <<"makedirs", "screenshot:error">>
          /\ log' = Append(log, <<"Screenshot salvo em: ", ScreenshotDir, ErrorShot(timestamp)>>)
    /\ Uncaught(Reraise(error))
    /\ UNCHANGED <<browser, locals, creds, error, history>>

(***************************************************************************)
(* The web site.                                                           *)
(***************************************************************************)
\* the course page finishes loading
Site_Load ==
    /\ pc = "configure_wait_load"
    /\ ~dom_loaded
    /\ dom_loaded' = TRUE
    /\ UNCHANGED <<pc, calls, log, files, dirs, page_url, vmstatus, clikeybox,
                   was_active, locals, creds, error, raised, exit_status, history>>

\* the lab changes state: the indicator changes its class
Site_Status ==
    /\ pc \in {"configure_wait_load", "configure_wait_status", "configure_read_status",
               "configure_check_status", "configure_wait_active", "configure_show",
               "configure_wait_text"}
    /\ vmstatus' \in StatusClasses \ {vmstatus}
    /\ was_active' = (was_active \/ IsActive(vmstatus'))
    /\ UNCHANGED <<pc, calls, log, files, dirs, page_url, dom_loaded, clikeybox,
                   locals, creds, error, raised, exit_status, history>>

\* the credential text appears once both reveal controls were clicked
Site_ShowText ==
    /\ pc = "configure_wait_text"
    /\ clikeybox = None
    /\ \E toks \in PageTokens :
          /\ tokens' = toks
          /\ clikeybox' = RawText(toks, PageStyle)
    /\ UNCHANGED <<pc, calls, log, files, dirs, page_url, dom_loaded, vmstatus,
                   was_active, locals, creds, error, raised, exit_status, prior,
                   persisted>>

(***************************************************************************)
(* The script: one run of the entry point.                                 *)
(***************************************************************************)
Script ==
    \/ Main_Start
    \/ Login_Goto \/ Login_ClickStart \/ Login_Fill \/ Login_Submit \/ Login_WaitForUrl
    \/ Configure_Goto \/ Configure_WaitLoad \/ Configure_WaitStatus
    \/ Configure_ReadStatus \/ Configure_CheckStatus \/ Configure_WaitActive
    \/ Configure_Show \/ Configure_WaitText
    \/ Main_GetSecrets \/ Main_SetGithubEnv \/ Main_Except

Site == Site_Load \/ Site_Status \/ Site_ShowText

Next == Script \/ Site

Spec == Init /\ [][Next]_vars

\* the calls are synchronous: the script takes its next step whenever it can
FairSpec == Spec /\ WF_vars(Script)

(***************************************************************************)
(* AWS.get_secrets called on its own (it is a static method), on every     *)
(* generated raw text.                                                     *)
(***************************************************************************)
ParseInit ==
    /\ pc = "get_secrets"
    /\ \E n \in 0..MaxTokens, st \in Styles :
          \E toks \in TokenSeqs(n) \cup {ExampleTokens} :
             /\ tokens = toks
             /\ info_raw = RawText(toks, st)
    /\ dirs = {} /\ vmstatus = None /\ was_active = FALSE
    /\ Idle(<<>>)

ParseNext == Main_GetSecrets

ParseSpec == ParseInit /\ [][ParseNext]_vars

(***************************************************************************)
(* set_github_env called on its own, up to MaxCalls times in a row.        *)
(***************************************************************************)
PersistInit ==
    /\ pc = "caller"
    /\ tokens = <<>> /\ info_raw = None
    /\ dirs = {} /\ vmstatus = None /\ was_active = FALSE
    /\ \E before \in Priors : Idle(before)

Call_SetGithubEnv ==
    /\ pc = "caller"
    /\ Len(persisted) < MaxCalls
    /\ \E k \in Values, s \in Values, t \in Values :
          /\ secrets' = <<k, s, t>>
          /\ creds' = set_github_env(creds, k, s, t)
          /\ persisted' = Append(persisted, <<k, s, t>>)
    /\ UNCHANGED <<pc, calls, log, files, dirs, browser, classe, info_raw, error,
                   raised, exit_status, tokens, prior>>

PersistNext == Call_SetGithubEnv

PersistSpec == PersistInit /\ [][PersistNext]_vars

(***************************************************************************)
(* Vocabulary of the properties.  These speak of the token list a raw text *)
(* was built from (the history variable tokens), not of the code's split.  *)
(***************************************************************************)
EqAt(tok) == {i \in 1..Len(tok) : tok[i] = "="}
HasEq(tok) == EqAt(tok) # {}
FirstEq(tok) == CHOOSE i \in EqAt(tok) : \A j \in EqAt(tok) : i <= j
\* everything after the first "="
AfterFirstEq(tok) == SubSeq(tok, FirstEq(tok) + 1, Len(tok))
\* from the first "=" to the second one, or to the end
UpToNextEq(s) == IF HasEq(s) THEN SubSeq(s, 1, FirstEq(s) - 1) ELSE s
BetweenEqs(tok) == UpToNextEq(AfterFirstEq(tok))

\* get_secrets has been called and has returned or raised
Parsed == pc \in {"set_github_env", "except"}
ReturnedTriple == pc = "set_github_env"
\* tokens 1, 2 and 3 exist and each holds an "="
ThreePairs(toks) == Len(toks) >= 4 /\ \A i \in 2..4 : HasEq(toks[i])
\* the form "<ignored> name=K name=S name=T": K, S and the names free of "="
WellFormed(toks) ==
    /\ ThreePairs(toks)
    /\ Cardinality(EqAt(toks[2])) = 1
    /\ Cardinality(EqAt(toks[3])) = 1

Count(call) == Cardinality({i \in 1..Len(calls) : calls[i] = call})
Newlines(text) == Cardinality({i \in 1..Len(text) : text[i] = "\n"})

(***************************************************************************)
(* Properties of AWS.get_secrets, checked under ParseSpec.                 *)
(***************************************************************************)
\* C1: for every raw text whose tokens are [ignored, name=K, name=S, name=T, ...]
\* with K and S free of "=", get_secrets returns exactly (K, S, T), T being all
\* that follows the first "=" of the fourth token.
C1_WellFormedParses ==
    (Parsed /\ WellFormed(tokens)) =>
        /\ ReturnedTriple
        /\ secrets = <<AfterFirstEq(tokens[2]), AfterFirstEq(tokens[3]),
                       AfterFirstEq(tokens[4])>>

\* the documented example has been parsed to ("AKIA123", "SECRET456", "TOK=EN=789")
C1_Witness ==
    /\ ReturnedTriple
    /\ tokens = ExampleTokens
    /\ secrets = << <<"AKIA123">>, <<"SECRET456">>, <<"TOK", "=", "EN", "=", "789">> >>

\* C2: get_secrets raises, and returns no triple, for every input of fewer than
\* 4 tokens and for every input whose token 1, 2 or 3 holds no "=".
C2_MalformedRaises ==
    (Parsed /\ ~ThreePairs(tokens)) =>
        /\ pc = "except"
        /\ error = IndexError
        /\ secrets = <<>>

\* four tokens, the last one without "=": the call has raised
C2_Witness ==
    /\ pc = "except"
    /\ Len(tokens) = 4
    /\ HasEq(tokens[2]) /\ HasEq(tokens[3]) /\ ~HasEq(tokens[4])

\* C8 as stated: every returned triple has three non-empty components.
C8_NonEmptyTriple ==
    ReturnedTriple => \A i \in 1..3 : secrets[i] # <<>>

\* C8 as amended: get_secrets returns for every input whose tokens 1, 2 and 3
\* hold an "=", and a component of the triple is empty exactly when nothing
\* stands between the first "=" of its token and the next "=" (tokens 1, 2) or
\* the end of the token (token 3).
C8_EmptyValuesReturned ==
    (Parsed /\ ThreePairs(tokens)) =>
        /\ ReturnedTriple
        /\ \A i \in 1..2 : (secrets[i] = <<>>) <=> (BetweenEqs(tokens[i + 1]) = <<>>)
        /\ (secrets[3] = <<>>) <=> (FirstEq(tokens[4]) = Len(tokens[4]))

\* a token that ends with its "=" gave a returned triple with an empty component
C8_Witness ==
    /\ ReturnedTriple
    /\ FirstEq(tokens[2]) = Len(tokens[2])
    /\ secrets[1] = <<>>

\* C10: the values of tokens 1 and 2 are cut at their second "=", without any
\* failure, while the value of token 3 is everything after its first "=".
C10_PositionalAsymmetric ==
    (Parsed /\ ThreePairs(tokens)) =>
        /\ ReturnedTriple
        /\ secrets[1] = BetweenEqs(tokens[2])
        /\ secrets[2] = BetweenEqs(tokens[3])
        /\ secrets[3] = AfterFirstEq(tokens[4])

\* tokens 1 and 3 both hold two "=": the first value came back cut, the third whole
C10_Witness ==
    /\ ReturnedTriple
    /\ Cardinality(EqAt(tokens[2])) >= 2 /\ Cardinality(EqAt(tokens[4])) >= 2
    /\ secrets[1] # AfterFirstEq(tokens[2])
    /\ secrets[3] = AfterFirstEq(tokens[4])

(***************************************************************************)
(* Properties of set_github_env, checked under PersistSpec.                *)
(***************************************************************************)
RECURSIVE ThreeLinesEach(_)
ThreeLinesEach(triples) ==
    IF triples = <<>> THEN <<>>
    ELSE <<"AWS_ACCESS_KEY_ID", "=">> \o triples[1][1] \o <<"\n">>
           \o <<"AWS_SECRET_ACCESS_KEY", "=">> \o triples[1][2] \o <<"\n">>
           \o <<"AWS_SESSION_TOKEN", "=">> \o triples[1][3] \o <<"\n">>
           \o ThreeLinesEach(Tail(triples))

\* C3: after n calls creds.txt holds its earlier content followed by 3n lines,
\* three per call in the fixed key order and in call order, each ended by a
\* newline; nothing is dropped or merged.
C3_AppendsThreeLines ==
    /\ creds = prior \o ThreeLinesEach(persisted)
    /\ Newlines(creds) = Newlines(prior) + 3 * Len(persisted)

\* two calls with different triples on a file that was not empty: 6 more lines
C3_Witness ==
    /\ pc = "caller"
    /\ Len(persisted) = 2 /\ persisted[1] # persisted[2]
    /\ prior # <<>>
    /\ Newlines(creds) = Newlines(prior) + 6

(***************************************************************************)
(* Properties of a run of the entry point, checked under Spec.             *)
(***************************************************************************)
LaunchClicks == Count("click:#launchclabsbtn")
RevealClicks == Count("click:#detailbtn2") + Count("click:#clikeyboxbtn")
\* line 133 has run, and the if of line 137 too
StatusRead == Count("get_attribute:#vmstatus") > 0
StatusChecked == StatusRead /\ pc # "configure_check_status"

\* C4: when #vmstatus is read with a class holding led-green, #launchclabsbtn is
\* never clicked in the call; when it is read with a class not holding it, the
\* button is clicked exactly once; and the reveal controls are clicked only
\* after the indicator has shown led-green.
C4_LaunchOnlyIfInactive ==
    /\ (StatusRead /\ IsActive(classe)) => LaunchClicks = 0
    /\ (StatusChecked /\ classe # None /\ ~IsActive(classe)) => LaunchClicks = 1
    /\ LaunchClicks <= 1
    /\ RevealClicks > 0 => was_active

\* read inactive, launched once, both reveal controls clicked
C4_Witness ==
    /\ StatusChecked /\ classe # None /\ ~IsActive(classe)
    /\ LaunchClicks = 1
    /\ Count("click:#clikeyboxbtn") = 1

\* the except clause of _login has run (lines 96-99)
LoginTimedOut == Count(Shot("3-login_error.png")) > 0
ExtractionCalls ==
    {"goto:course", "wait_for_load_state", "wait_for:#vmstatus", "get_attribute:#vmstatus",
     "click:#launchclabsbtn", "wait_for:#vmstatus.led-green", "click:#detailbtn2",
     "click:#clikeyboxbtn", "wait_for:#clikeybox", "text_content:#clikeybox"}

\* C5: when the success URL is not reached in time, the run ends with the login
\* failure and no extraction step has run or will run: no call of configure_aws,
\* no parse, no write to creds.txt, and one login attempt only.
C5_LoginFailureStopsRun ==
    LoginTimedOut =>
        /\ pc = "exit" /\ exit_status = "nonzero"
        /\ raised = LoginFailed
        /\ \A i \in 1..Len(calls) : calls[i] \notin ExtractionCalls
        /\ classe = None /\ info_raw = None /\ secrets = <<>>
        /\ creds = prior /\ persisted = <<>>
        /\ Count("click:submit") = 1 /\ Count("wait_for_url") = 1
        /\ ~ENABLED Next

\* a run that ended on the login timeout
C5_Witness ==
    /\ LoginTimedOut
    /\ pc = "exit"
    /\ page_url # SuccessUrl

ErrorShotTaken == \E t \in Timestamps : ErrorShot(t) \in files
ErrorShotLogged ==
    \E t \in Timestamps :
        /\ ErrorShot(t) \in files
        /\ log # <<>>
        /\ log[Len(log)] = <<"Screenshot salvo em: ", ScreenshotDir, ErrorShot(t)>>

\* C6 as stated: every run that ends on an exception, of authentication or of
\* extraction, has made the screenshots directory, taken the timestamped error
\* screenshot, logged its path and raised the original error again.
C6_EveryFailureHandled ==
    (pc = "exit" /\ exit_status = "nonzero") =>
        /\ ScreenshotDir \in dirs
        /\ ErrorShotLogged
        /\ Count("makedirs") = 1
        /\ error # NoError /\ raised = error

\* C6 as amended: an exception raised inside the try block (by configure_aws or
\* get_secrets) is caught; the run then ends non-zero with the directory made,
\* the timestamped screenshot taken, its path logged last, and a new Exception
\* raised that carries the message of the caught one but not its type.  An
\* exception of authentication is raised outside the try block: the run ends
\* non-zero with that exception itself and without the error screenshot.
C6_FailureInsideTryHandled ==
    /\ error # NoError => pc \in {"except", "exit"}
    /\ (pc = "exit" /\ error # NoError) =>
          /\ exit_status = "nonzero"
          /\ ScreenshotDir \in dirs
          /\ Count("makedirs") = 1
          /\ ErrorShotLogged
          /\ raised = Exc("Exception", error.msg, error.type)
          /\ Count("goto:course") = 1
    /\ (pc = "exit" /\ exit_status = "nonzero" /\ error = NoError) =>
          /\ Count("goto:course") = 0
          /\ Count("makedirs") = 0
          /\ ~ErrorShotTaken
          /\ raised # NoError /\ raised.wraps = "-"

\* a run that ended on the IndexError of get_secrets, wrapped in an Exception
C6_Witness ==
    /\ pc = "exit"
    /\ error = IndexError
    /\ raised = Exc("Exception", "list index out of range", "IndexError")
    /\ ErrorShotLogged

\* C7: a run appends nothing to creds.txt before it ends; it ends with status 0
\* and exactly three more lines when login, extraction and parsing succeeded,
\* and non-zero with the file untouched otherwise; never one or two lines.
C7_ZeroOrThreeLines ==
    /\ pc # "exit" => creds = prior
    /\ Newlines(creds) - Newlines(prior) \in {0, 3}
    /\ pc = "exit" =>
          \/ /\ exit_status = "0" /\ raised = NoError
             /\ page_url = CourseUrl /\ info_raw # None /\ ThreePairs(tokens)
             /\ creds = prior \o ThreeLinesEach(<<secrets>>)
             /\ Newlines(creds) = Newlines(prior) + 3
          \/ /\ exit_status = "nonzero" /\ raised # NoError
             /\ creds = prior
    /\ (pc = "exit" /\ info_raw # None /\ ThreePairs(tokens)) => exit_status = "0"

\* a successful run on a file that held an unterminated line
C7_Witness ==
    /\ pc = "exit" /\ exit_status = "0"
    /\ prior = <<"unterminated">>
    /\ Newlines(creds) = 3

(***************************************************************************)
(* Properties of the unbounded waits, checked under FairSpec.              *)
(***************************************************************************)
\* while the condition of a timeout=0 wait does not hold, the script stays in it
WaitsBlock ==
    /\ (pc = "configure_wait_active" /\ ~IsActive(vmstatus)) =>
          (pc' = pc /\ calls' = calls /\ error' = error)
    /\ (pc = "configure_wait_text" /\ clikeybox = None) =>
          (pc' = pc /\ calls' = calls /\ error' = error)

\* C9 as stated: the two waits neither return nor fail while their condition
\* does not hold; and if the indicator becomes active and the text element
\* attaches, the run reaches the persist step.
C9_WaitsThenPersist ==
    /\ [][WaitsBlock]_vars
    /\ (<>IsActive(vmstatus) /\ <>(clikeybox # None)) => <>(pc = "set_github_env")

\* C9 as amended: the two waits neither return nor fail while their condition
\* does not hold; if the indicator stays active the script leaves the wait for
\* it; and once the text element is attached the run ends: through the persist
\* step with status 0 when tokens 1, 2 and 3 of the text hold an "=", and
\* through the except clause, non-zero and without a write, when they do not.
C9_WaitsThenEnd ==
    /\ [][WaitsBlock]_vars
    /\ <>[]IsActive(vmstatus) => <>[](pc # "configure_wait_active")
    /\ (clikeybox # None /\ ThreePairs(tokens))
          ~> (pc = "exit" /\ exit_status = "0" /\ persisted # <<>>)
    /\ (clikeybox # None /\ ~ThreePairs(tokens))
          ~> (pc = "exit" /\ exit_status = "nonzero" /\ creds = prior)

\* the script sits in the wait for led-green, launch clicked, indicator not active
C9_Witness ==
    /\ pc = "configure_wait_active"
    /\ LaunchClicks = 1
    /\ ~IsActive(vmstatus)

=============================================================================
